---- MODULE Spec2Model ----
(***************************************************************************)
(* CTC prefix beam search of speechbrain/decoders/ctc/prefix_beam_search.py *)
(* as a state machine: the Beam record, the Beams mapping (an insertion-    *)
(* ordered dict of prefix -> Beam) with its operations, and the frame loop  *)
(* of CTCPrefixBeamSearch.partial_decoding.                                 *)
(*                                                                          *)
(* Log-probabilities.  A float x is modelled exactly as the pair [n, d]     *)
(* standing for log(n / 2^d): the probability mass is a dyadic rational.    *)
(* -inf is mass 0, 0.0 is mass 1.  np.logaddexp adds masses, float + on     *)
(* log-probabilities multiplies masses, > compares masses.  Rounding of     *)
(* IEEE doubles is not modelled.  Python's None is the pair with n = -1.    *)
(***************************************************************************)
EXTENDS Integers, Sequences, FiniteSets, TLC

VARIABLES
    beams,  \* Beams.beams: the dict, as the sequence of its items [key, beam] in insertion order
    call,   \* the last call made on the objects: its name, arguments, outcome and the dict before it
    pd,     \* the activation of partial_decoding: position in its loops and its locals
    searcher \* the CTCPrefixBeamSearch object the caller holds, if one was constructed

vars == <<beams, call, pd, searcher>>

-----------------------------------------------------------------------------
(* floats in the log domain *)

RECURSIVE Norm(_, _)
Norm(n, d) ==
    IF n = 0 THEN [n |-> 0, d |-> 0]
    ELSE IF d > 0 /\ n % 2 = 0 THEN Norm(n \div 2, d - 1)
    ELSE [n |-> n, d |-> d]

Max(a, b) == IF a >= b THEN a ELSE b

NegInf == [n |-> 0, d |-> 0]
Zero == [n |-> 1, d |-> 0]
None == [n |-> -1, d |-> 0]
Half == [n |-> 1, d |-> 1]
Quarter == [n |-> 1, d |-> 2]

\* np.logaddexp(a, b) = log(exp(a) + exp(b))
LogAddExp(a, b) ==
    LET D == Max(a.d, b.d)
    IN  Norm(a.n * 2^(D - a.d) + b.n * 2^(D - b.d), D)

\* a + b on two log-probabilities
Add(a, b) == Norm(a.n * b.n, a.d + b.d)

\* a > b on two floats
Gt(a, b) == a.n * 2^(b.d) > b.n * 2^(a.d)

\* bool(p) for p a float or None: None and 0.0 are false
Truthy(p) == p # None /\ p # Zero

-----------------------------------------------------------------------------
(* Beam *)

\* last_idx_token is an Optional[int]: <<>> for None, <<i>> for the index i

\* Beam with score_lm defaulting to -math.inf like the other scores
NewBeam_ScoreLmNegInf ==
    [text |-> "", next_word |-> "", partial_word |-> "",
     last_token |-> "None", last_idx_token |-> <<>>,
     p |-> NegInf, p_b |-> NegInf, p_nb |-> NegInf,
     n_p_b |-> NegInf, n_p_nb |-> NegInf,
     score |-> NegInf, score_lm |-> NegInf, score_ctc |-> NegInf]

\* Beam("", "", "", None, None)
NewBeam ==
    [text |-> "", next_word |-> "", partial_word |-> "",
     last_token |-> "None", last_idx_token |-> <<>>,
     p |-> NegInf, p_b |-> NegInf, p_nb |-> NegInf,
     n_p_b |-> NegInf, n_p_nb |-> NegInf,
     score |-> NegInf, score_lm |-> Zero, score_ctc |-> NegInf]

\* Beam.step with the recomputation of score_ctc left out
BeamStep_KeepsScoreCtc(b) ==
    LET b1 == [b EXCEPT !.p_b = b.n_p_b, !.p_nb = b.n_p_nb]
        b2 == [b1 EXCEPT !.n_p_b = NegInf, !.n_p_nb = NegInf]
    IN  [b2 EXCEPT !.score = Add(b2.score_ctc, b2.score_lm)]

\* Beam.step with the accumulators assigned crosswise
BeamStep_Swapped(b) ==
    LET b1 == [b EXCEPT !.p_b = b.n_p_nb, !.p_nb = b.n_p_b]
        b2 == [b1 EXCEPT !.n_p_b = NegInf, !.n_p_nb = NegInf]
        b3 == [b2 EXCEPT !.score_ctc = LogAddExp(b2.p_b, b2.p_nb)]
    IN  [b3 EXCEPT !.score = Add(b3.score_ctc, b3.score_lm)]

\* Beam.step
BeamStep(b) ==
    LET b1 == [b EXCEPT !.p_b = b.n_p_b, !.p_nb = b.n_p_nb]
        b2 == [b1 EXCEPT !.n_p_b = NegInf, !.n_p_nb = NegInf]
        b3 == [b2 EXCEPT !.score_ctc = LogAddExp(b2.p_b, b2.p_nb)]
    IN  [b3 EXCEPT !.score = Add(b3.score_ctc, b3.score_lm)]

-----------------------------------------------------------------------------
(* Beams: the dict *)

Item(key, beam) == [key |-> key, beam |-> beam]

KeysOf(bs) == {bs[i].key : i \in DOMAIN bs}

IndexOf(bs, key) == CHOOSE i \in DOMAIN bs : bs[i].key = key

BeamOf(bs, key) == bs[IndexOf(bs, key)].beam

\* Beams.__init__ with the root's mass put on the non-blank side
NewBeams_NonBlankRoot == << Item(<<>>, [NewBeam EXCEPT !.p_nb = Zero, !.score_ctc = Zero]) >>

\* Beams.__init__
NewBeams == << Item(<<>>, [NewBeam EXCEPT !.p_b = Zero, !.score_ctc = Zero]) >>

\* Beams.getitem(key, p, previous_beam): the dict after the call, the exception
\* raised ("" for none) and the key of the beam returned
GetItem(bs, key, p, hasPrev) ==
    IF key \in KeysOf(bs)
    THEN LET i == IndexOf(bs, key)
             beam == bs[i].beam
         IN  IF Truthy(p) /\ beam.p = None
             THEN [beams |-> bs, raised |-> "TypeError", ret |-> <<>>]
             ELSE IF Truthy(p) /\ Gt(p, beam.p)
             THEN [beams |-> [bs EXCEPT ![i].beam.p = p], raised |-> "", ret |-> <<key>>]
             ELSE [beams |-> bs, raised |-> "", ret |-> <<key>>]
    ELSE LET new_beam == IF hasPrev THEN [NewBeam EXCEPT !.p = p] ELSE NewBeam
         IN  [beams |-> Append(bs, Item(key, new_beam)), raised |-> "", ret |-> <<key>>]

\* Beams.__delitem__(key)
DelItem(bs, key) ==
    IF key \in KeysOf(bs)
    THEN [beams |-> SelectSeq(bs, LAMBDA it : it.key # key), raised |-> ""]
    ELSE [beams |-> bs, raised |-> "KeyError"]

\* Beams.step
BeamsStep(bs) == [i \in DOMAIN bs |-> Item(bs[i].key, BeamStep(bs[i].beam))]

\* the first k entries of a result of np.argpartition(a, k) with a[i] = -score of
\* item i: any k distinct indexes that a pivot separates from the rest, in any order
Selections(bs, k) ==
    LET n == Len(bs)
        sc(i) == bs[i].beam.score
    IN  {ix \in [1..k -> 1..n] :
            /\ \A a, b \in 1..k : a # b => ix[a] # ix[b]
            /\ LET S == {ix[a] : a \in 1..k}
               IN  \E j \in (1..n) \ S :
                      /\ \A i \in S : ~Gt(sc(j), sc(i))
                      /\ \A r \in (1..n) \ (S \cup {j}) : ~Gt(sc(r), sc(j))}

\* the exception of {k: v for k, v in itemgetter(i)(beams)}: with one index
\* itemgetter returns the item itself, and the comprehension unpacks its key
\* and then its Beam
UnpackError(item) == IF Len(item.key) = 2 THEN "TypeError" ELSE "ValueError"

\* Beams.topk_(k) that removes one lowest beam when over k (an if for a while)
TopkOutcomes_DropsOne(bs, k) ==
    IF Len(bs) <= k
    THEN {[beams |-> bs, raised |-> ""]}
    ELSE {[beams |-> [a \in 1..(Len(bs) - 1) |-> bs[ix[a]]], raised |-> ""] :
             ix \in Selections(bs, Len(bs) - 1)}

\* Beams.topk_(k): the outcomes the call can have
TopkOutcomes(bs, k) ==
    IF Len(bs) <= k
    THEN {[beams |-> bs, raised |-> ""]}
    ELSE IF k = 0
    THEN {[beams |-> bs, raised |-> "TypeError"]}
    ELSE IF k = 1
    THEN {[beams |-> bs, raised |-> UnpackError(bs[ix[1]])] : ix \in Selections(bs, k)}
    ELSE {[beams |-> [a \in 1..k |-> bs[ix[a]]], raised |-> ""] : ix \in Selections(bs, k)}

\* sorted(items, key=score, reverse=True): stable, equal scores keep dict order
RECURSIVE InsertByScore(_, _)
InsertByScore(s, it) ==
    IF s = <<>> THEN <<it>>
    ELSE IF Gt(it.beam.score, Head(s).beam.score) THEN <<it>> \o s
    ELSE <<Head(s)>> \o InsertByScore(Tail(s), it)

RECURSIVE SortFrom(_, _)
SortFrom(done, rest) ==
    IF rest = <<>> THEN done
    ELSE SortFrom(InsertByScore(done, Head(rest)), Tail(rest))

RECURSIVE Reverse(_)
Reverse(s) == IF s = <<>> THEN <<>> ELSE Append(Reverse(Tail(s)), Head(s))

\* Beams.sort without reverse=True
Sorted_Ascending(bs) == Reverse(SortFrom(<<>>, bs))

\* Beams.sort
Sorted(bs) == SortFrom(<<>>, bs)

KeySeq(items) == [i \in DOMAIN items |-> items[i].key]

-----------------------------------------------------------------------------
(* CTCPrefixBeamSearch.partial_decoding *)

\* token_prune_min_logp = -5
TokenPruneMinLogp == [n |-> 1, d |-> 5]

\* logit_col.argmax(): the first index of the largest entry
ArgMax(col) ==
    CHOOSE i \in DOMAIN col :
        /\ \A j \in DOMAIN col : ~Gt(col[j], col[i])
        /\ \A j \in DOMAIN col : j < i => Gt(col[i], col[j])

\* the candidate set without the union with {max_index}
TokensIndexList_NoArgmax(col) ==
    {i \in DOMAIN col : Gt(col[i], TokenPruneMinLogp)}

\* set(np.where(logit_col > self.token_prune_min_logp)[0]) | {max_index}
TokensIndexList(col) ==
    {i \in DOMAIN col : Gt(col[i], TokenPruneMinLogp)} \cup {ArgMax(col)}

\* no activation of partial_decoding
PdIdle ==
    [pc |-> "idle", log_probs |-> <<>>, processed_frames |-> 0, row |-> 0,
     frame_index |-> -1, max_index |-> -1, tokens_index_list |-> {},
     tokens_left |-> {}, token_index |-> -1,
     curr_beams |-> <<>>, beam_pos |-> 0,
     visited |-> <<>>, step_calls |-> 0, topk_calls |-> 0]

\* no CTCPrefixBeamSearch has been constructed
NoSearcher == [made |-> FALSE, blank_index |-> -1]

\* CTCBaseSearcher.__init__(blank_index, vocab_list, ...): an index that is no
\* index of vocab_list is a configuration error
BaseInit(blank_index, vocab_size) ==
    IF blank_index < 0 \/ blank_index >= vocab_size THEN "ValueError" ELSE ""

\* CTCPrefixBeamSearch.__init__ that stores its arguments without super().__init__
Construct_NoSuper(blank_index, vocab_size) ==
    [searcher |-> [made |-> TRUE, blank_index |-> blank_index], raised |-> ""]

\* CTCPrefixBeamSearch.__init__(blank_index, vocab_list, ...): the object made,
\* if super().__init__ raises nothing
Construct(blank_index, vocab_size) ==
    LET raised == BaseInit(blank_index, vocab_size)
    IN  IF raised = ""
        THEN [searcher |-> [made |-> TRUE, blank_index |-> blank_index], raised |-> ""]
        ELSE [searcher |-> NoSearcher, raised |-> raised]

-----------------------------------------------------------------------------
(* bounds and the inputs of the calls *)

VocabSize == 3
MaxFrames == 2
MaxK == 3
BeamWidth == 2

Prefixes == {<<>>, <<1>>}
PArgs == {None, Zero, Quarter, Half}
StartFrames == {0, 2}

Tiny == [n |-> 1, d |-> 6]
Labels == 0 .. (VocabSize - 1)
PeakRow == [i \in Labels |-> IF i = 0 THEN Half ELSE Tiny]
FlatRow == [i \in Labels |-> Quarter]
LowRow == [i \in Labels |-> IF i = VocabSize - 1 THEN Tiny ELSE [n |-> 1, d |-> 7]]
MixRow == [i \in Labels |-> IF i = 0 THEN Half ELSE IF i = 1 THEN Quarter ELSE Tiny]
Rows == {PeakRow, FlatRow, LowRow, MixRow}
BlankArgs == {-1, 0, VocabSize}
Matrices == UNION {[1..t -> Rows] : t \in 0..MaxFrames}

-----------------------------------------------------------------------------
(* the calls *)

Call(op, key, p, prev, k, raised, ret) ==
    [op |-> op, key |-> key, p |-> p, prev |-> prev, k |-> k,
     raised |-> raised, ret |-> ret, pre |-> beams]

Init ==
    /\ beams = NewBeams
    /\ call = [op |-> "Beams.__init__", key |-> <<>>, p |-> None, prev |-> FALSE, k |-> 0,
               raised |-> "", ret |-> <<>>, pre |-> <<>>]
    /\ pd = PdIdle
    /\ searcher = NoSearcher

\* searcher = CTCPrefixBeamSearch(blank_index, vocab_list): when the constructor
\* raises, the caller keeps what it held
DoConstruct ==
    /\ pd.pc = "idle"
    /\ \E b \in BlankArgs :
          LET o == Construct(b, VocabSize)
          IN  /\ searcher' = (IF o.raised = "" THEN o.searcher ELSE searcher)
              /\ call' = Call("CTCPrefixBeamSearch.__init__", <<>>, None, FALSE, b, o.raised, <<>>)
    /\ pd' = PdIdle
    /\ UNCHANGED beams

\* beams.getitem(key, p, previous_beam); beams[key] is getitem(key, None, None)
DoGetItem ==
    /\ pd.pc = "idle"
    /\ \E key \in Prefixes, p \in PArgs, hasPrev \in BOOLEAN :
          LET o == GetItem(beams, key, p, hasPrev)
          IN  /\ beams' = o.beams
              /\ call' = Call("getitem", key, p, hasPrev, 0, o.raised, o.ret)
    /\ pd' = PdIdle
    /\ UNCHANGED searcher

\* del beams[key]
DoDelItem ==
    /\ pd.pc = "idle"
    /\ \E key \in Prefixes :
          LET o == DelItem(beams, key)
          IN  /\ beams' = o.beams
              /\ call' = Call("delitem", key, None, FALSE, 0, o.raised, <<>>)
    /\ pd' = PdIdle
    /\ UNCHANGED searcher

\* beam.step() on one beam of the dict
DoBeamStep ==
    /\ pd.pc = "idle"
    /\ \E i \in DOMAIN beams :
          /\ beams' = [beams EXCEPT ![i].beam = BeamStep(beams[i].beam)]
          /\ call' = Call("Beam.step", beams[i].key, None, FALSE, 0, "", <<>>)
    /\ pd' = PdIdle
    /\ UNCHANGED searcher

\* beams.step()
DoBeamsStep ==
    /\ pd.pc = "idle"
    /\ beams' = BeamsStep(beams)
    /\ call' = Call("Beams.step", <<>>, None, FALSE, 0, "", <<>>)
    /\ pd' = PdIdle
    /\ UNCHANGED searcher

\* beams.topk_(k)
DoTopk ==
    /\ pd.pc = "idle"
    /\ \E k \in 0..MaxK :
          \E o \in TopkOutcomes(beams, k) :
              /\ beams' = o.beams
              /\ call' = Call("topk_", <<>>, None, FALSE, k, o.raised, <<>>)
    /\ pd' = PdIdle
    /\ UNCHANGED searcher

\* beams.sort()
DoSort ==
    /\ pd.pc = "idle"
    /\ call' = Call("sort", <<>>, None, FALSE, 0, "", KeySeq(Sorted(beams)))
    /\ pd' = PdIdle
    /\ UNCHANGED beams
    /\ UNCHANGED searcher

\* a call of partial_decoding(log_probs, beams, ..., processed_frames)
PdCall ==
    /\ pd.pc = "idle"
    /\ searcher.made
    /\ \E m \in Matrices, start \in StartFrames :
          pd' = [PdIdle EXCEPT !.pc = "for_frame", !.log_probs = m,
                               !.processed_frames = start]
    /\ call' = Call("partial_decoding", <<>>, None, FALSE, 0, "", <<>>)
    /\ UNCHANGED beams
    /\ UNCHANGED searcher

\* for frame_index, logit_col in enumerate(log_probs, start=processed_frames):
\* the next row, its candidate tokens and the ranked snapshot of the beams
PdFrame ==
    /\ pd.pc = "for_frame"
    /\ pd.row < Len(pd.log_probs)
    /\ LET logit_col == pd.log_probs[pd.row + 1]
           frame_index == pd.processed_frames + pd.row
       IN  pd' = [pd EXCEPT !.pc = "for_token", !.row = pd.row + 1,
                            !.frame_index = frame_index,
                            !.max_index = ArgMax(logit_col),
                            !.tokens_index_list = TokensIndexList(logit_col),
                            !.tokens_left = TokensIndexList(logit_col),
                            !.curr_beams = KeySeq(Sorted(beams)),
                            !.visited = Append(pd.visited, frame_index),
                            !.step_calls = 0, !.topk_calls = 0]
    /\ UNCHANGED <<beams, call>>
    /\ UNCHANGED searcher

\* the rows are exhausted: partial_decoding returns None
PdReturn ==
    /\ pd.pc = "for_frame"
    /\ pd.row = Len(pd.log_probs)
    /\ pd' = [pd EXCEPT !.pc = "idle"]
    /\ UNCHANGED <<beams, call>>
    /\ UNCHANGED searcher

\* for token_index in tokens_index_list: a set is iterated in no stated order.
\* p_token and token are read from logit_col and vocab_list (taken to be as long
\* as a row) and are used by no statement that is reached
PdToken ==
    /\ pd.pc = "for_token"
    /\ \E t \in pd.tokens_left :
          pd' = [pd EXCEPT !.pc = "for_beam", !.token_index = t,
                           !.tokens_left = pd.tokens_left \ {t}, !.beam_pos = 0]
    /\ UNCHANGED <<beams, call>>
    /\ UNCHANGED searcher

\* the tokens are exhausted: the body of the frame loop ends here
PdFrameEnd ==
    /\ pd.pc = "for_token"
    /\ pd.tokens_left = {}
    /\ pd' = [pd EXCEPT !.pc = "for_frame"]
    /\ UNCHANGED <<beams, call>>
    /\ UNCHANGED searcher

\* the beam loop with the token's mass added to the current-frame slot p_b of
\* the live beam, not to an accumulator, ahead of the failing read
PdBeam_InPlace ==
    /\ pd.pc = "for_beam"
    /\ pd.beam_pos < Len(pd.curr_beams)
    /\ pd' = [pd EXCEPT !.pc = "idle"]
    /\ call' = [call EXCEPT !.raised = "AttributeError"]
    /\ LET i == IndexOf(beams, pd.curr_beams[pd.beam_pos + 1])
       IN  beams' = [beams EXCEPT ![i].beam.p_b =
                        LogAddExp(beams[i].beam.p_b, pd.log_probs[pd.row][pd.token_index])]
    /\ UNCHANGED searcher

\* the beam loop with a write of the token's log-probability to the live beam
\* ahead of the failing read
PdBeam_RecordsToken ==
    /\ pd.pc = "for_beam"
    /\ pd.beam_pos < Len(pd.curr_beams)
    /\ pd' = [pd EXCEPT !.pc = "idle"]
    /\ call' = [call EXCEPT !.raised = "AttributeError"]
    /\ beams' = [beams EXCEPT ![IndexOf(beams, pd.curr_beams[pd.beam_pos + 1])].beam.p =
                                  pd.log_probs[pd.row][pd.token_index]]
    /\ UNCHANGED searcher

\* for beam in curr_beams: p_b, p_nb = beam.p_b, beam.p_nb, where beam is an
\* item (key, Beam) of beams.sort(), a tuple: the attribute access raises
PdBeam ==
    /\ pd.pc = "for_beam"
    /\ pd.beam_pos < Len(pd.curr_beams)
    /\ pd' = [pd EXCEPT !.pc = "idle"]
    /\ call' = [call EXCEPT !.raised = "AttributeError"]
    /\ UNCHANGED beams
    /\ UNCHANGED searcher

\* the snapshot is exhausted (it was empty): the next token
PdBeamsEnd ==
    /\ pd.pc = "for_beam"
    /\ pd.beam_pos = Len(pd.curr_beams)
    /\ pd' = [pd EXCEPT !.pc = "for_token"]
    /\ UNCHANGED <<beams, call>>
    /\ UNCHANGED searcher

Next ==
    \/ DoConstruct
    \/ DoGetItem
    \/ DoDelItem
    \/ DoBeamStep
    \/ DoBeamsStep
    \/ DoTopk
    \/ DoSort
    \/ PdCall
    \/ PdFrame
    \/ PdReturn
    \/ PdToken
    \/ PdFrameEnd
    \/ PdBeam
    \/ PdBeamsEnd

Spec == Init /\ [][Next]_vars

-----------------------------------------------------------------------------
(* The operations that read the numeric fields, on a new Beams and on dicts    *)
(* holding arbitrary beams: Beam is a dataclass with public fields and         *)
(* Beams.__setitem__ stores any Beam under any key.                            *)

AnyKeys == << <<>>, <<1>>, <<1, 2>> >>

\* a Beam whose accumulators hold mass (or not) and whose score is given
AnyBeam(score, filled) ==
    IF filled
    THEN [NewBeam EXCEPT !.score = score, !.n_p_b = Half, !.n_p_nb = Quarter,
                         !.score_lm = Half]
    ELSE [NewBeam EXCEPT !.score = score]

AnyBeams == {AnyBeam(sc, f) : sc \in {NegInf, Quarter, Half}, f \in BOOLEAN}

InitAny ==
    /\ \/ /\ beams = NewBeams
          /\ call = [op |-> "Beams.__init__", key |-> <<>>, p |-> None, prev |-> FALSE,
                     k |-> 0, raised |-> "", ret |-> <<>>, pre |-> <<>>]
       \/ /\ \E n \in 0..Len(AnyKeys) :
                \E bm \in [1..n -> AnyBeams] :
                    beams = [i \in 1..n |-> Item(AnyKeys[i], bm[i])]
          /\ call = [op |-> "Beams.__setitem__", key |-> <<>>, p |-> None, prev |-> FALSE,
                     k |-> 0, raised |-> "", ret |-> <<>>, pre |-> <<>>]
    /\ pd = PdIdle
    /\ searcher = NoSearcher

NextAny ==
    \/ DoBeamStep
    \/ DoBeamsStep
    \/ DoTopk
    \/ DoSort

SpecAny == InitAny /\ [][NextAny]_vars

-----------------------------------------------------------------------------
(* partial_decoding on the dicts a caller can pass: an empty one, a new one,  *)
(* and one holding a beam that ends in label 1 with mass on its non-blank     *)
(* side.                                                                       *)

DecBeams ==
    { <<>>,
      NewBeams,
      Append(NewBeams,
             Item(<<1>>, [NewBeam EXCEPT !.last_idx_token = <<1>>, !.p_nb = Half,
                                         !.score_ctc = Half, !.score = Half])) }

InitDec ==
    /\ beams \in DecBeams
    /\ call = [op |-> "Beams.__setitem__", key |-> <<>>, p |-> None, prev |-> FALSE,
               k |-> 0, raised |-> "", ret |-> <<>>, pre |-> <<>>]
    /\ pd = PdIdle
    /\ searcher = Construct(0, VocabSize).searcher

NextDec ==
    \/ PdCall
    \/ PdFrame
    \/ PdReturn
    \/ PdToken
    \/ PdFrameEnd
    \/ PdBeam
    \/ PdBeamsEnd

SpecDec == InitDec /\ [][NextDec]_vars

-----------------------------------------------------------------------------
(* The claims.  call.pre is the dict before the last call, beams the dict   *)
(* after it.                                                                *)

ItemSet(bs) == {bs[i] : i \in DOMAIN bs}

\* C1: Beam.step() on any beam sets p_b and p_nb to the n_p_b and n_p_nb held
\* before the call, resets n_p_b and n_p_nb to -inf, sets score_ctc to
\* logaddexp(new p_b, new p_nb) and score to that score_ctc plus score_lm; the
\* rest of the beam and the other beams stay as they were.
C1_BeamStep ==
    call.op = "Beam.step" =>
        LET i == IndexOf(call.pre, call.key)
            old == call.pre[i].beam
            new == beams[i].beam
        IN  /\ new.p_b = old.n_p_b
            /\ new.p_nb = old.n_p_nb
            /\ new.n_p_b = NegInf
            /\ new.n_p_nb = NegInf
            /\ new.score_ctc = LogAddExp(old.n_p_b, old.n_p_nb)
            /\ new.score = Add(LogAddExp(old.n_p_b, old.n_p_nb), old.score_lm)
            /\ new.score_lm = old.score_lm /\ new.p = old.p
            /\ \A j \in DOMAIN beams : j # i => beams[j] = call.pre[j]

\* a beam whose two accumulators held different masses has been stepped
C1_Witness ==
    /\ call.op = "Beam.step"
    /\ LET old == call.pre[IndexOf(call.pre, call.key)].beam
       IN  old.n_p_b # NegInf /\ old.n_p_nb # NegInf /\ old.n_p_b # old.n_p_nb
           /\ old.score_lm # Zero

\* C2: at every settled frame boundary (a new Beams, and the state after each
\* Beams.step()) every beam of the dict has score_ctc = logaddexp(p_b, p_nb),
\* the beams created by getitem included.
C2_SettledScoreCtc ==
    call.op \in {"Beams.__init__", "Beams.step"} =>
        \A i \in DOMAIN beams :
            beams[i].beam.score_ctc = LogAddExp(beams[i].beam.p_b, beams[i].beam.p_nb)

\* Beams.step() has advanced a beam whose accumulators held mass, next to a
\* beam as getitem creates it
C2_Witness ==
    /\ call.op = "Beams.step"
    /\ \E i, j \in DOMAIN call.pre :
          /\ call.pre[i].beam.n_p_b # NegInf
          /\ call.pre[i].beam.score_ctc # LogAddExp(call.pre[i].beam.n_p_b, call.pre[i].beam.n_p_nb)
          /\ call.pre[j].beam = NewBeam

\* C3: in every state in which beams are ranked or pruned (a freshly
\* constructed Beams included) every beam's score equals score_ctc + score_lm.
C3_ScoreIsSum ==
    call.op \in {"Beams.__init__", "sort", "topk_"} =>
        \A i \in DOMAIN beams :
            beams[i].beam.score = Add(beams[i].beam.score_ctc, beams[i].beam.score_lm)

\* C4: a new Beams holds exactly one beam, keyed by the empty prefix, with
\* p_b = 0, p_nb = -inf and score_lm = 0; every other prefix of the dict was
\* put there by a getitem on that prefix.
C4_FreshBeams ==
    /\ call.op = "Beams.__init__" =>
          /\ Len(beams) = 1
          /\ beams[1].key = <<>>
          /\ beams[1].beam.p_b = Zero
          /\ beams[1].beam.p_nb = NegInf
          /\ beams[1].beam.score_lm = Zero
    /\ call.op # "Beams.__init__" =>
          \A key \in KeysOf(beams) \ KeysOf(call.pre) :
              call.op = "getitem" /\ call.key = key

\* the first expansion on a new Beams has just created a second prefix
C4_Witness ==
    /\ call.op = "getitem"
    /\ call.pre = NewBeams
    /\ Len(beams) = 2

\* C5: getitem(key, p, previous_beam): a present key returns that beam and,
\* whenever p exceeds the stored beam.p (p = 0.0 included), raises beam.p to p;
\* an absent key adds exactly one new beam under key with p seeded from the
\* given p and returns it; no other beam is added, removed or modified.
C5_GetOrCreate ==
    call.op = "getitem" =>
        /\ call.raised = ""
        /\ call.ret = <<call.key>>
        /\ IF call.key \in KeysOf(call.pre)
           THEN LET i == IndexOf(call.pre, call.key)
                    old == call.pre[i].beam
                IN  /\ Len(beams) = Len(call.pre)
                    /\ \A j \in DOMAIN beams : j # i => beams[j] = call.pre[j]
                    /\ beams[i].key = call.key
                    /\ [beams[i].beam EXCEPT !.p = old.p] = old
                    /\ (call.p # None /\ old.p # None /\ Gt(call.p, old.p))
                          => beams[i].beam.p = call.p
           ELSE /\ Len(beams) = Len(call.pre) + 1
                /\ \A j \in DOMAIN call.pre : beams[j] = call.pre[j]
                /\ beams[Len(beams)].key = call.key
                /\ call.p # None => beams[Len(beams)].beam.p = call.p

\* C6: for n beams and k >= 1, topk_(k) completes and leaves exactly min(k, n)
\* beams, each under its original key, every retained beam scoring at least
\* as high as every discarded one.
C6_TopkKeepsBest ==
    (call.op = "topk_" /\ call.k >= 1) =>
        /\ call.raised = ""
        /\ Len(beams) = (IF call.k < Len(call.pre) THEN call.k ELSE Len(call.pre))
        /\ ItemSet(beams) \subseteq ItemSet(call.pre)
        /\ Cardinality(KeysOf(beams)) = Len(beams)
        /\ \A r \in ItemSet(beams) : \A d \in ItemSet(call.pre) \ ItemSet(beams) :
              ~Gt(d.beam.score, r.beam.score)

C8_SortRanks ==
    call.op = "sort" =>
        /\ Len(call.ret) = Len(beams)
        /\ \A i \in DOMAIN beams : \E j \in DOMAIN call.ret : call.ret[j] = beams[i].key
        /\ \A a, b \in DOMAIN call.ret : a # b => call.ret[a] # call.ret[b]
        /\ \A a, b \in DOMAIN call.ret :
              a < b => ~Gt(BeamOf(beams, call.ret[b]).score, BeamOf(beams, call.ret[a]).score)
        /\ beams = call.pre

\* a sort() of three beams whose dict order is not their rank order
C8_Witness ==
    /\ call.op = "sort"
    /\ Len(beams) = 3
    /\ call.ret # KeySeq(beams)
    /\ \E a, b \in DOMAIN beams : Gt(beams[a].beam.score, beams[b].beam.score)

\* C9: after each frame processed by partial_decoding every live beam has been
\* advanced once by Beams.step, after the frame's expansions, and the dict has
\* then been pruned, so that it holds at most beam_width beams.
C9_FrameAdvancesAndPrunes ==
    (pd.pc = "for_frame" /\ pd.row > 0) =>
        /\ pd.step_calls = 1
        /\ pd.topk_calls = 1
        /\ Len(beams) <= BeamWidth

\* C10: on a non-empty matrix partial_decoding visits the frames
\* processed_frames, processed_frames + 1, ... once each, in this order, and
\* then returns to its caller: it ends in no other way.
C10_RunsToCompletion ==
    (call.op = "partial_decoding" /\ pd.pc = "idle" /\ Len(pd.log_probs) > 0) =>
        /\ call.raised = ""
        /\ pd.visited = [i \in 1..Len(pd.log_probs) |-> pd.processed_frames + i - 1]

C12_EmptyMatrixFails ==
    (call.op = "partial_decoding" /\ pd.pc = "idle" /\ Len(pd.log_probs) = 0) =>
        call.raised # ""

\* C13: with no language model, score_lm is 0 for every beam in every state of
\* a decode (the root, the beams made by getitem, after any step and topk_),
\* so score equals score_ctc after every Beams.step().
C13_NoLmScore ==
    /\ \A i \in DOMAIN beams : beams[i].beam.score_lm = Zero
    /\ call.op = "Beams.step" =>
          \A i \in DOMAIN beams : beams[i].beam.score = beams[i].beam.score_ctc

\* Beams.step() has advanced the root, whose score_ctc was 0.0 and whose score
\* was not, and a beam made by getitem
C13_Witness ==
    /\ call.op = "Beams.step"
    /\ Len(beams) = 2
    /\ \E i \in DOMAIN call.pre :
          call.pre[i].beam.score_ctc = Zero /\ call.pre[i].beam.score # Zero

\* C14: decoding is deterministic: the state in which a call of
\* partial_decoding ends (the beams with all their fields, their ranked order,
\* the frames visited and the way the call ends) is a function of the beams,
\* the matrix and processed_frames it was called with, whatever the order in
\* which the candidate tokens are taken.
C14_Deterministic ==
    (call.op = "partial_decoding" /\ pd.pc = "idle") =>
        LET stops == Len(pd.log_probs) > 0 /\ Len(call.pre) > 0
            frames == IF stops THEN 1 ELSE Len(pd.log_probs)
        IN  /\ beams = call.pre
            /\ KeySeq(Sorted(beams)) = KeySeq(Sorted(call.pre))
            /\ call.raised = (IF stops THEN "AttributeError" ELSE "")
            /\ pd.visited = [i \in 1..frames |-> pd.processed_frames + i - 1]

\* a call has ended in a frame with several candidate tokens, of which not the
\* lowest index was taken first
C14_Witness ==
    /\ call.op = "partial_decoding"
    /\ pd.pc = "idle"
    /\ pd.tokens_left # {}
    /\ \E t \in pd.tokens_left : t < pd.token_index
    /\ Len(beams) = 2

\* the call of partial_decoding has taken up a (beam, token) pair: the body of
\* the beam loop has run for the beam PairKey and the token pd.token_index
PairTaken ==
    /\ call.op = "partial_decoding"
    /\ pd.pc = "idle"
    /\ call.raised # ""

PairKey == pd.curr_beams[pd.beam_pos + 1]

PToken == pd.log_probs[pd.row][pd.token_index]

\* C15: for every (snapshot beam, candidate label) pair whose label is new
\* (not blank, not the beam's last label) partial_decoding opens or merges into
\* the beam keyed prefix + [label] and adds p_b(prev) + p_token (and, where
\* applicable, p_nb(prev) + p_token) to its n_p_nb; no prefix is duplicated.
C15_NewLabelOpensBeam ==
    (/\ PairTaken
     /\ pd.token_index # searcher.blank_index
     /\ BeamOf(call.pre, PairKey).last_idx_token # <<pd.token_index>>) =>
        LET prev == BeamOf(call.pre, PairKey)
            nk == Append(PairKey, pd.token_index)
            was == IF nk \in KeysOf(call.pre) THEN BeamOf(call.pre, nk).n_p_nb ELSE NegInf
            one == LogAddExp(was, Add(prev.p_b, PToken))
        IN  /\ nk \in KeysOf(beams)
            /\ Cardinality(KeysOf(beams)) = Len(beams)
            /\ BeamOf(beams, nk).n_p_nb \in {one, LogAddExp(one, Add(prev.p_nb, PToken))}

\* C16: when the blank label is a candidate, for every snapshot beam
\* partial_decoding sets the beam's n_p_b to logaddexp(n_p_b, score_ctc + p_token),
\* score_ctc being the beam's settled value; no prefix is created or changed.
C16_BlankAccumulates ==
    (PairTaken /\ pd.token_index = searcher.blank_index) =>
        LET prev == BeamOf(call.pre, PairKey)
        IN  /\ KeySeq(beams) = KeySeq(call.pre)
            /\ BeamOf(beams, PairKey).n_p_b =
                  LogAddExp(prev.n_p_b, Add(prev.score_ctc, PToken))

\* C17: for every snapshot beam whose last emitted label index equals the
\* candidate label index, partial_decoding adds p_nb(prev) + p_token into that
\* beam's n_p_nb by logaddexp, and creates no beam for the longer prefix.
C17_RepeatCollapses ==
    (PairTaken /\ BeamOf(call.pre, PairKey).last_idx_token = <<pd.token_index>>) =>
        LET prev == BeamOf(call.pre, PairKey)
        IN  /\ BeamOf(beams, PairKey).n_p_nb =
                  LogAddExp(prev.n_p_nb, Add(prev.p_nb, PToken))
            /\ Append(PairKey, pd.token_index) \notin KeysOf(beams) \ KeysOf(call.pre)

\* C18: during a call of partial_decoding the beams iterated are the ranked
\* snapshot of the settled state, and no beam's p_b, p_nb or score_ctc changes
\* (there is no step inside the call): what is read for a pair depends on no
\* pair taken before it.
C18_CurrentSlotsFrozen ==
    call.op = "partial_decoding" =>
        /\ KeySeq(beams) = KeySeq(call.pre)
        /\ \A i \in DOMAIN beams :
              /\ beams[i].beam.p_b = call.pre[i].beam.p_b
              /\ beams[i].beam.p_nb = call.pre[i].beam.p_nb
              /\ beams[i].beam.score_ctc = call.pre[i].beam.score_ctc
        /\ pd.pc \in {"for_token", "for_beam"} =>
              /\ Len(pd.curr_beams) = Len(call.pre)
              /\ \A i \in DOMAIN call.pre : \E j \in DOMAIN pd.curr_beams :
                    pd.curr_beams[j] = call.pre[i].key

\* the beam loop stands before a pair, in a frame with several candidates, on
\* a dict of two beams of which one holds mass in p_b
C18_Witness ==
    /\ pd.pc = "for_beam"
    /\ Len(pd.curr_beams) = 2
    /\ Cardinality(pd.tokens_index_list) >= 2
    /\ \E i \in DOMAIN beams : beams[i].beam.p_b = Zero

\* C19: in every frame the candidate label set is {the argmax label} united
\* with {every label whose log-probability is > token_prune_min_logp}: it is
\* never empty and no label outside it is taken up.
C19_CandidateSet ==
    pd.pc \in {"for_token", "for_beam"} =>
        LET col == pd.log_probs[pd.row]
        IN  /\ \E m \in Labels :
                  /\ \A j \in Labels : ~Gt(col[j], col[m])
                  /\ pd.tokens_index_list = {m} \cup {i \in Labels : Gt(col[i], TokenPruneMinLogp)}
            /\ pd.tokens_index_list # {}
            /\ pd.tokens_left \subseteq pd.tokens_index_list
            /\ pd.pc = "for_beam" => pd.token_index \in pd.tokens_index_list

\* a token is taken up that is in the set as the argmax only, in a frame where
\* no label is above token_prune_min_logp
C19_Witness ==
    /\ pd.pc = "for_beam"
    /\ ~Gt(pd.log_probs[pd.row][pd.token_index], TokenPruneMinLogp)
    /\ pd.tokens_index_list = {pd.token_index}

====
